---- MODULE Spec2Model ----
(***************************************************************************)
(* taskforge: the dependency graph (graph/dag.py) and the execution engine *)
(* (executor/executor.py) over a loaded task set (config/types.py).        *)
(*                                                                         *)
(* Task identifiers are modelled as the naturals 1..MaxTasks; the numeric  *)
(* order stands for the lexicographic order Python's sorted() uses on the  *)
(* identifier strings ("A" < "B" < "C" < "D").                             *)
(***************************************************************************)
EXTENDS Integers, Sequences, FiniteSets, TLC

MaxTasks == 4

Ids == 1..MaxTasks

ExitCodes == {0, 1}

(***************************************************************************)
(* Sequences and sorting                                                   *)
(***************************************************************************)
Range(s) == {s[i] : i \in 1..Len(s)}

NoDup(s) == \A i, j \in 1..Len(s) : i # j => s[i] # s[j]

Contains(s, x) == \E i \in 1..Len(s) : s[i] = x

IndexOf(s, x) == CHOOSE i \in 1..Len(s) : s[i] = x

Min(S) == CHOOSE x \in S : \A y \in S : x <= y

RECURSIVE InsertSorted(_, _)
InsertSorted(s, x) ==
    IF s = <<>> THEN <<x>>
    ELSE IF x <= Head(s) THEN <<x>> \o s
    ELSE <<Head(s)>> \o InsertSorted(Tail(s), x)

\* Python's sorted() applied to a list
RECURSIVE sorted(_)
sorted(s) ==
    IF s = <<>> THEN <<>>
    ELSE InsertSorted(sorted(Tail(s)), Head(s))

\* Python's sorted() applied to a set (or to the keys of a dict)
RECURSIVE sortedSet(_)
sortedSet(S) ==
    IF S = {} THEN <<>>
    ELSE <<Min(S)>> \o sortedSet(S \ {Min(S)})

\* the elements of S listed in the order seq lists them
RECURSIVE Restrict(_, _)
Restrict(seq, S) ==
    IF seq = <<>> THEN <<>>
    ELSE IF Head(seq) \in S THEN <<Head(seq)>> \o Restrict(Tail(seq), S)
    ELSE Restrict(Tail(seq), S)

(***************************************************************************)
(* ProjectConfig: the insertion order of the tasks dict and, per task, the *)
(* deps list of its TaskConfig.                                            *)
(***************************************************************************)
tasks_ids(project) == sortedSet(Range(project.keys))

\* Relations the loader accepts: every dependency id is a key, no task
\* depends on itself.  Acyclicity is not checked by the loader.
Relations ==
    UNION {[K -> SUBSET K] : K \in (SUBSET Ids) \ {{}}}

LoaderValid(rel) == \A t \in DOMAIN rel : t \notin rel[t]

\* The project that declares relation rel with its tasks written in the
\* order pk lists the ids, and each dependency list in the order pd does.
Declare(rel, pk, pd) ==
    [keys |-> Restrict(pk, DOMAIN rel),
     deps |-> [t \in DOMAIN rel |-> Restrict(pd, rel[t])],
     env  |-> [t \in DOMAIN rel |-> <<>>]]

RelationOf(project) ==
    [t \in Range(project.keys) |-> Range(project.deps[t])]

(***************************************************************************)
(* TaskGraph                                                               *)
(***************************************************************************)
\* from_project storing task.deps as declared, without sorted()
from_project_unsorted(project) ==
    [t \in Range(tasks_ids(project)) |-> project.deps[t]]

from_project(project) ==
    [t \in Range(tasks_ids(project)) |-> sorted(project.deps[t])]

NoError == [type |-> "none", cycle |-> <<>>, key |-> 0]

CycleError(cycle) == [type |-> "CycleError", cycle |-> cycle, key |-> 0]

KeyError(key) == [type |-> "KeyError", cycle |-> <<>>, key |-> key]

\* what subprocess.run raises when the child cannot be started (the working
\* directory does not exist, fork fails)
OSError == [type |-> "OSError", cycle |-> <<>>, key |-> 0]

ConfigError == [type |-> "ConfigError", cycle |-> <<>>, key |-> 0]

\* the locals of _toposort: state, out, stack, pos, and the pending exception
ToposortLocals(universe) ==
    [state |-> [tid \in universe |-> "UNVISITED"],
     out   |-> <<>>,
     stack |-> <<>>,
     pos   |-> [tid \in universe |-> -1],
     exc   |-> NoError]

RECURSIVE visit(_, _, _)
RECURSIVE visitDeps(_, _, _, _)

\* the loop "for dep in self._deps[tid]: if dep in state: visit(dep)",
\* from the i-th dependency on; a raised exception ends it
visitDeps(deps, loc, tid, i) ==
    IF loc.exc.type # "none" \/ i > Len(deps[tid]) THEN loc
    ELSE LET dep == deps[tid][i]
             nxt == IF dep \in DOMAIN loc.state THEN visit(deps, loc, dep) ELSE loc
         IN  visitDeps(deps, nxt, tid, i + 1)

\* visit appending tid to out before its dependencies are visited
visit_preorder(deps, loc, tid) ==
    IF loc.state[tid] = "VISITING"
    THEN LET start == loc.pos[tid]
         IN  [loc EXCEPT !.exc =
                 CycleError(SubSeq(loc.stack, start + 1, Len(loc.stack)) \o <<tid>>)]
    ELSE IF loc.state[tid] = "VISITED" THEN loc
    ELSE LET entered == [loc EXCEPT !.state[tid] = "VISITING",
                                    !.pos[tid] = Len(loc.stack),
                                    !.stack = Append(loc.stack, tid),
                                    !.out = Append(loc.out, tid)]
             after == visitDeps(deps, entered, tid, 1)
         IN  IF after.exc.type # "none" THEN after
             ELSE [after EXCEPT !.stack = SubSeq(after.stack, 1, Len(after.stack) - 1),
                                !.pos[tid] = -1,
                                !.state[tid] = "VISITED"]

\* visit reporting stack[start:] without the repeated tid
visit_openPath(deps, loc, tid) ==
    IF loc.state[tid] = "VISITING"
    THEN LET start == loc.pos[tid]
         IN  [loc EXCEPT !.exc =
                 CycleError(SubSeq(loc.stack, start + 1, Len(loc.stack)))]
    ELSE IF loc.state[tid] = "VISITED" THEN loc
    ELSE LET entered == [loc EXCEPT !.state[tid] = "VISITING",
                                    !.pos[tid] = Len(loc.stack),
                                    !.stack = Append(loc.stack, tid)]
             after == visitDeps(deps, entered, tid, 1)
         IN  IF after.exc.type # "none" THEN after
             ELSE [after EXCEPT !.stack = SubSeq(after.stack, 1, Len(after.stack) - 1),
                                !.pos[tid] = -1,
                                !.state[tid] = "VISITED",
                                !.out = Append(after.out, tid)]

\* visit without the VISITING check: a task in progress is taken as done
visit_noCycleCheck(deps, loc, tid) ==
    IF loc.state[tid] # "UNVISITED" THEN loc
    ELSE LET entered == [loc EXCEPT !.state[tid] = "VISITING",
                                    !.pos[tid] = Len(loc.stack),
                                    !.stack = Append(loc.stack, tid)]
             after == visitDeps(deps, entered, tid, 1)
         IN  [after EXCEPT !.stack = SubSeq(after.stack, 1, Len(after.stack) - 1),
                           !.pos[tid] = -1,
                           !.state[tid] = "VISITED",
                           !.out = Append(after.out, tid)]

\* visit reporting the whole in-progress path, lead-in included
visit_wholeStack(deps, loc, tid) ==
    IF loc.state[tid] = "VISITING"
    THEN [loc EXCEPT !.exc = CycleError(loc.stack \o <<tid>>)]
    ELSE IF loc.state[tid] = "VISITED" THEN loc
    ELSE LET entered == [loc EXCEPT !.state[tid] = "VISITING",
                                    !.pos[tid] = Len(loc.stack),
                                    !.stack = Append(loc.stack, tid)]
             after == visitDeps(deps, entered, tid, 1)
         IN  IF after.exc.type # "none" THEN after
             ELSE [after EXCEPT !.stack = SubSeq(after.stack, 1, Len(after.stack) - 1),
                                !.pos[tid] = -1,
                                !.state[tid] = "VISITED",
                                !.out = Append(after.out, tid)]

\* visit reporting the cycle walked against the dependency edges
visit_reversedPath(deps, loc, tid) ==
    IF loc.state[tid] = "VISITING"
    THEN LET start == loc.pos[tid]
             path == SubSeq(loc.stack, start + 1, Len(loc.stack))
         IN  [loc EXCEPT !.exc =
                 CycleError(<<tid>> \o [i \in 1..Len(path) |-> path[Len(path) + 1 - i]])]
    ELSE IF loc.state[tid] = "VISITED" THEN loc
    ELSE LET entered == [loc EXCEPT !.state[tid] = "VISITING",
                                    !.pos[tid] = Len(loc.stack),
                                    !.stack = Append(loc.stack, tid)]
             after == visitDeps(deps, entered, tid, 1)
         IN  IF after.exc.type # "none" THEN after
             ELSE [after EXCEPT !.stack = SubSeq(after.stack, 1, Len(after.stack) - 1),
                                !.pos[tid] = -1,
                                !.state[tid] = "VISITED",
                                !.out = Append(after.out, tid)]

visit(deps, loc, tid) ==
    IF loc.state[tid] = "VISITING"
    THEN LET start == loc.pos[tid]
         IN  [loc EXCEPT !.exc =
                 CycleError(SubSeq(loc.stack, start + 1, Len(loc.stack)) \o <<tid>>)]
    ELSE IF loc.state[tid] = "VISITED" THEN loc
    ELSE LET entered == [loc EXCEPT !.state[tid] = "VISITING",
                                    !.pos[tid] = Len(loc.stack),
                                    !.stack = Append(loc.stack, tid)]
             after == visitDeps(deps, entered, tid, 1)
         IN  IF after.exc.type # "none" THEN after
             ELSE [after EXCEPT !.stack = SubSeq(after.stack, 1, Len(after.stack) - 1),
                                !.pos[tid] = -1,
                                !.state[tid] = "VISITED",
                                !.out = Append(after.out, tid)]

RECURSIVE visitAll(_, _, _, _)
\* the loop "for tid in sorted(universe): visit(tid)"
visitAll(deps, loc, roots, i) ==
    IF loc.exc.type # "none" \/ i > Len(roots) THEN loc
    ELSE visitAll(deps, visit(deps, loc, roots[i]), roots, i + 1)

\* what a call returns: the order, or the exception it raised and no order
Returned(order) == [exc |-> NoError, order |-> order]

Raised(exc) == [exc |-> exc, order |-> <<>>]

\* _toposort handing back what out holds when a cycle is met
_toposort_partial(deps, universe) ==
    Returned(visitAll(deps, ToposortLocals(universe), sortedSet(universe), 1).out)

\* _toposort starting its traversals from the greatest id down
_toposort_descending(deps, universe) ==
    LET up == sortedSet(universe)
        down == [i \in 1..Len(up) |-> up[Len(up) + 1 - i]]
        loc == visitAll(deps, ToposortLocals(universe), down, 1)
    IN  IF loc.exc.type # "none" THEN Raised(loc.exc) ELSE Returned(loc.out)

_toposort(deps, universe) ==
    LET loc == visitAll(deps, ToposortLocals(universe), sortedSet(universe), 1)
    IN  IF loc.exc.type # "none" THEN Raised(loc.exc) ELSE Returned(loc.out)

topo_order(deps) == _toposort(deps, DOMAIN deps)

\* the worklist loop stopping at the direct dependencies of the target
needed_direct(deps, needed, worklist) ==
    Range(worklist) \cup UNION {Range(deps[t]) : t \in Range(worklist)}

RECURSIVE needed_closure(_, _, _)
\* the worklist loop of subgraph_order; worklist.pop() takes the last element
needed_closure(deps, needed, worklist) ==
    IF worklist = <<>> THEN needed
    ELSE LET task_id == worklist[Len(worklist)]
             rest == SubSeq(worklist, 1, Len(worklist) - 1)
         IN  IF task_id \in needed THEN needed_closure(deps, needed, rest)
             ELSE needed_closure(deps, needed \cup {task_id}, rest \o deps[task_id])

\* subgraph_order answering an unknown target with an empty order
subgraph_order_emptyOnUnknown(deps, target) ==
    IF target \notin DOMAIN deps THEN Returned(<<>>)
    ELSE _toposort(deps, needed_closure(deps, {}, <<target>>))

\* subgraph_order sorting the whole task set instead of the closure
subgraph_order_wholeSet(deps, target) ==
    IF target \notin DOMAIN deps THEN Raised(KeyError(target))
    ELSE _toposort(deps, DOMAIN deps)

\* subgraph_order cutting the order of the whole task set down to the closure
subgraph_order_filterTopo(deps, target) ==
    IF target \notin DOMAIN deps THEN Raised(KeyError(target))
    ELSE LET full == topo_order(deps)
         IN  IF full.exc.type # "none" THEN full
             ELSE Returned(Restrict(full.order, needed_closure(deps, {}, <<target>>)))

subgraph_order(deps, target) ==
    IF target \notin DOMAIN deps THEN Raised(KeyError(target))
    ELSE _toposort(deps, needed_closure(deps, {}, <<target>>))

(***************************************************************************)
(* The loader (config/loader.py).  A string of the config file is a name   *)
(* with or without surrounding whitespace; name 0 is the string that is    *)
(* empty once stripped.  A raw task is an item of raw["tasks"]: its key,   *)
(* the "deps" list and the "env" mapping.                                  *)
(***************************************************************************)
MaxRawTasks == 2

MaxRawDeps == 2

RawStr(name, pad) == [name |-> name, pad |-> pad]

\* str.strip()
strip(s) == s.name

RawTask(id, deps, env) == [id |-> id, deps |-> deps, env |-> env]

NoProject == [keys |-> <<>>, deps |-> <<>>, env |-> <<>>]

Loaded(p) == [exc |-> NoError, project |-> p]

LoadFailed == [exc |-> ConfigError, project |-> NoProject]

\* what _build_task_config returns for the deps field, or that it raised
BuiltDeps(deps) == [exc |-> NoError, deps |-> deps]

BuildFailed == [exc |-> ConfigError, deps |-> <<>>]

\* the deps loop keeping a repeated id at every occurrence
RECURSIVE build_deps_keepRepeats(_, _, _, _)
build_deps_keepRepeats(task_id, items, deps, seen) ==
    IF items = <<>> THEN BuiltDeps(deps)
    ELSE LET dep == strip(Head(items))
         IN  IF dep = 0 THEN BuildFailed
             ELSE IF dep = task_id THEN BuildFailed
             ELSE build_deps_keepRepeats(task_id, Tail(items), Append(deps, dep),
                                         seen \cup {dep})

\* the loop "for item in fields['deps']" of _build_task_config
RECURSIVE build_deps(_, _, _, _)
build_deps(task_id, items, deps, seen) ==
    IF items = <<>> THEN BuiltDeps(deps)
    ELSE LET dep == strip(Head(items))
         IN  IF dep = 0 THEN BuildFailed
             ELSE IF dep = task_id THEN BuildFailed
             ELSE IF dep \in seen
                  THEN build_deps(task_id, Tail(items), deps, seen)
             ELSE build_deps(task_id, Tail(items), Append(deps, dep),
                             seen \cup {dep})

\* an item of the "env" mapping of a raw task
EnvItem(key, item) == [key |-> key, item |-> item]

BuiltEnv(env) == [exc |-> NoError, env |-> env]

\* the loop "for key, item in fields['env'].items()" of _build_task_config
RECURSIVE build_env(_, _)
build_env(items, env) ==
    IF items = <<>> THEN BuiltEnv(env)
    ELSE IF strip(Head(items).key) = 0 THEN [exc |-> ConfigError, env |-> <<>>]
    ELSE build_env(Tail(items),
                   (strip(Head(items).key) :> Head(items).item) @@ env)

TaskConfig(deps, env) == [exc |-> NoError, deps |-> deps, env |-> env]

TaskFailed == [exc |-> ConfigError, deps |-> <<>>, env |-> <<>>]

_build_task_config(task_id, fields) ==
    LET d == build_deps(task_id, fields.deps, <<>>, {})
        e == build_env(fields.env, <<>>)
    IN  IF d.exc.type # "none" THEN TaskFailed
        ELSE IF e.exc.type # "none" THEN TaskFailed
        ELSE TaskConfig(d.deps, e.env)

\* the loop "for task_id, fields in raw['tasks'].items()"
RECURSIVE build_tasks(_, _)
build_tasks(items, tasks) ==
    IF items = <<>> THEN Loaded(tasks)
    ELSE LET task_id_norm == strip(Head(items).id)
             built == _build_task_config(task_id_norm, Head(items))
         IN  IF task_id_norm = 0 THEN LoadFailed
             ELSE IF task_id_norm \in Range(tasks.keys) THEN LoadFailed
             ELSE IF built.exc.type # "none" THEN LoadFailed
             ELSE build_tasks(Tail(items),
                      [keys |-> Append(tasks.keys, task_id_norm),
                       deps |-> (task_id_norm :> built.deps) @@ tasks.deps,
                       env  |-> (task_id_norm :> built.env) @@ tasks.env])

\* the loop "for task in tasks.values(): for dep in task.deps"
UnknownDependency(tasks) ==
    \E t \in Range(tasks.keys) :
        \E i \in 1..Len(tasks.deps[t]) : tasks.deps[t][i] \notin Range(tasks.keys)

\* _build_project_config accepting dependency ids that are no task
_build_project_config_noClosure(r) ==
    IF Len(r.tasks) < 1 THEN LoadFailed
    ELSE build_tasks(r.tasks, NoProject)

_build_project_config(r) ==
    IF Len(r.tasks) < 1 THEN LoadFailed
    ELSE LET built == build_tasks(r.tasks, NoProject)
         IN  IF built.exc.type # "none" THEN built
             ELSE IF UnknownDependency(built.project) THEN LoadFailed
             ELSE built

load_project(r) == _build_project_config(r)

(***************************************************************************)
(* The program state: a loaded project, the graph built from it, and one   *)
(* call of Executor.run_all / Executor.run_target with the locals of _run. *)
(***************************************************************************)
VARIABLES
    project,        \* ProjectConfig
    graph,          \* TaskGraph._deps
    pc,             \* "idle", "loop", "child", "break", "returned", "raised"
    call,           \* the entry point called and its arguments
    order,          \* _run: order
    idx,            \* _run: position of the for loop in order (1-based)
    results,        \* _run: results, as the sequence of its (key, returncode) items
    failed_list,
    failed_set,
    skipped_list,
    skipped_set,
    succeeded_set,
    processed,
    stopped_early,
    spawned,        \* the task ids handed to subprocess.run, in spawn sequence
    exc,            \* the exception that reached the caller
    ret,            \* the RunResult returned to the caller
    environ,        \* os.environ
    spawn_envs,     \* the env= mapping of each spawn, in spawn sequence
    raw,            \* the parsed config file load_project works on
    args,           \* the parsed command line of run_cli
    stdout,         \* the status lines _print_result printed
    exit_status,    \* what run_cli returned; -1 while it has not returned
    calls           \* the order calls made on the graph and what each gave back

locals == <<order, idx, results, failed_list, failed_set, skipped_list,
            skipped_set, succeeded_set, processed, stopped_early>>

cli == <<raw, args, stdout, exit_status>>

vars == <<project, graph, pc, call, order, idx, results, failed_list, failed_set,
          skipped_list, skipped_set, succeeded_set, processed, stopped_early,
          spawned, exc, ret, environ, spawn_envs, raw, args, stdout, exit_status,
          calls>>

NoArgs == [command |-> "none", targets |-> <<>>, no_fail_fast |-> FALSE]

NoRaw == [tasks |-> <<>>]

\* {**a, **b}
Merge(a, b) ==
    [k \in DOMAIN a \cup DOMAIN b |-> IF k \in DOMAIN b THEN b[k] ELSE a[k]]

NoCall == [name |-> "none", target |-> 0, fail_fast |-> FALSE]

NoResult == [order |-> <<>>, results |-> <<>>, failed |-> <<>>, skipped |-> <<>>]

RunResult(o, r, f, s) == [order |-> o, results |-> r, failed |-> f, skipped |-> s]

TaskResult(tid, rc) == [task_id |-> tid, returncode |-> rc]

\* the orders a config file is written in: ascending and descending ids
DeclOrders == {[i \in Ids |-> i], [i \in Ids |-> MaxTasks + 1 - i]}

Projects == {Declare(rel, pk, pd) : rel \in {r \in Relations : LoaderValid(r)},
                                    pk \in DeclOrders, pd \in DeclOrders}

\* the state before any call: nothing ran, nothing was raised or returned
Fresh ==
    /\ call = NoCall
    /\ order = <<>>
    /\ idx = 1
    /\ results = <<>>
    /\ failed_list = <<>>
    /\ failed_set = {}
    /\ skipped_list = <<>>
    /\ skipped_set = {}
    /\ succeeded_set = {}
    /\ processed = {}
    /\ stopped_early = FALSE
    /\ spawned = <<>>
    /\ calls = <<>>
    /\ exc = NoError
    /\ ret = NoResult
    /\ spawn_envs = <<>>
    /\ stdout = <<>>
    /\ exit_status = -1

Init ==
    /\ project \in Projects
    /\ graph = from_project(project)
    /\ pc = "idle"
    /\ environ = <<>>
    /\ raw = NoRaw
    /\ args = NoArgs
    /\ Fresh

\* entering _run(order, fail_fast) with the order the graph returned, or
\* leaving the call with the exception the graph raised
Enter(got) ==
    /\ order' = got.order
    /\ exc' = got.exc
    /\ pc' = IF got.exc.type = "none" THEN "loop" ELSE "raised"
    /\ UNCHANGED <<project, graph, idx, results, failed_list, failed_set,
                   skipped_list, skipped_set, succeeded_set, processed,
                   stopped_early, spawned, ret, environ, spawn_envs,
                   raw, stdout, exit_status, calls>>

\* run_all walking the task ids in sorted order instead of topo_order()
run_all_sortedIds(ff) ==
    /\ pc = "idle"
    /\ call' = [name |-> "run_all", target |-> 0, fail_fast |-> ff]
    /\ Enter(Returned(tasks_ids(project)))

run_all(ff) ==
    /\ pc = "idle"
    /\ call' = [name |-> "run_all", target |-> 0, fail_fast |-> ff]
    /\ Enter(topo_order(graph))

run_target(target, ff) ==
    /\ pc = "idle"
    /\ call' = [name |-> "run_target", target |-> target, fail_fast |-> ff]
    /\ Enter(subgraph_order(graph, target))

\* get_task(tid).deps
task_deps(tid) == project.deps[tid]

\* the dependency rule looking at failed_set only
DepBlocked_failedOnly(tid) ==
    \E i \in 1..Len(task_deps(tid)) : task_deps(tid)[i] \in failed_set

DepBlocked(tid) ==
    \E i \in 1..Len(task_deps(tid)) :
        task_deps(tid)[i] \in failed_set \/ task_deps(tid)[i] \in skipped_set

\* a dependency of the task failed or was skipped: the task is skipped
SkipTask ==
    /\ pc = "loop"
    /\ idx <= Len(order)
    /\ DepBlocked(order[idx])
    /\ skipped_list' = Append(skipped_list, order[idx])
    /\ skipped_set' = skipped_set \cup {order[idx]}
    /\ processed' = processed \cup {order[idx]}
    /\ idx' = idx + 1
    /\ UNCHANGED <<project, graph, pc, call, order, results, failed_list,
                   failed_set, succeeded_set, stopped_early, spawned, exc, ret,
                   environ, spawn_envs, cli, calls>>

\* the spawn not waiting for the child: the loop goes on to the next task
SpawnTask_async ==
    /\ pc = "loop"
    /\ idx <= Len(order)
    /\ ~DepBlocked(order[idx])
    /\ spawned' = Append(spawned, order[idx])
    /\ spawn_envs' = Append(spawn_envs, Merge(environ, project.env[order[idx]]))
    /\ processed' = processed \cup {order[idx]}
    /\ idx' = idx + 1
    /\ UNCHANGED <<project, graph, pc, call, order, results, failed_list,
                   failed_set, skipped_list, skipped_set, succeeded_set,
                   stopped_early, exc, ret, environ, cli, calls>>

\* the spawn building the child's environment inside the task's own env dict
SpawnTask_mergesIntoTaskEnv ==
    /\ pc = "loop"
    /\ idx <= Len(order)
    /\ ~DepBlocked(order[idx])
    /\ spawned' = Append(spawned, order[idx])
    /\ project' = [project EXCEPT !.env[order[idx]] = Merge(environ, @)]
    /\ spawn_envs' = Append(spawn_envs, project'.env[order[idx]])
    /\ pc' = "child"
    /\ UNCHANGED <<graph, call, locals, exc, ret, environ, cli, calls>>

\* the spawn writing the task's overrides into os.environ itself
SpawnTask_updatesEnviron ==
    /\ pc = "loop"
    /\ idx <= Len(order)
    /\ ~DepBlocked(order[idx])
    /\ spawned' = Append(spawned, order[idx])
    /\ environ' = Merge(environ, project.env[order[idx]])
    /\ spawn_envs' = Append(spawn_envs, environ')
    /\ pc' = "child"
    /\ UNCHANGED <<project, graph, call, locals, exc, ret, cli, calls>>

\* subprocess.run starts the child of the task and blocks
SpawnTask ==
    /\ pc = "loop"
    /\ idx <= Len(order)
    /\ ~DepBlocked(order[idx])
    /\ spawned' = Append(spawned, order[idx])
    /\ spawn_envs' = Append(spawn_envs, Merge(environ, project.env[order[idx]]))
    /\ pc' = "child"
    /\ UNCHANGED <<project, graph, call, locals, exc, ret, environ, cli, calls>>

\* subprocess.run raises instead of starting a child; _run does not catch it
SpawnFails ==
    /\ pc = "loop"
    /\ idx <= Len(order)
    /\ ~DepBlocked(order[idx])
    /\ exc' = OSError
    /\ pc' = "raised"
    /\ UNCHANGED <<project, graph, call, locals, spawned, ret, environ,
                   spawn_envs, cli, calls>>

\* ChildExit whose failure never breaks out of the loop
ChildExit_noBreak(rc) ==
    /\ pc = "child"
    /\ results' = Append(results, TaskResult(order[idx], rc))
    /\ processed' = processed \cup {order[idx]}
    /\ IF rc = 0
       THEN /\ succeeded_set' = succeeded_set \cup {order[idx]}
            /\ UNCHANGED <<failed_list, failed_set>>
       ELSE /\ failed_list' = Append(failed_list, order[idx])
            /\ failed_set' = failed_set \cup {order[idx]}
            /\ UNCHANGED succeeded_set
    /\ idx' = idx + 1
    /\ pc' = "loop"
    /\ UNCHANGED <<project, graph, call, order, skipped_list, skipped_set,
                   stopped_early, spawned, exc, ret, environ, spawn_envs, cli, calls>>

\* the child exits with returncode rc; the result is recorded and classified
ChildExit(rc) ==
    /\ pc = "child"
    /\ results' = Append(results, TaskResult(order[idx], rc))
    /\ processed' = processed \cup {order[idx]}
    /\ IF rc = 0
       THEN /\ succeeded_set' = succeeded_set \cup {order[idx]}
            /\ idx' = idx + 1
            /\ pc' = "loop"
            /\ UNCHANGED <<failed_list, failed_set, stopped_early>>
       ELSE /\ failed_list' = Append(failed_list, order[idx])
            /\ failed_set' = failed_set \cup {order[idx]}
            /\ stopped_early' = call.fail_fast
            /\ idx' = IF call.fail_fast THEN idx ELSE idx + 1
            /\ pc' = IF call.fail_fast THEN "break" ELSE "loop"
            /\ UNCHANGED succeeded_set
    /\ UNCHANGED <<project, graph, call, order, skipped_list, skipped_set,
                   spawned, exc, ret, environ, spawn_envs, cli, calls>>

\* the ids of order not in processed, in order sequence
RECURSIVE Unprocessed(_, _)
Unprocessed(o, done) ==
    IF o = <<>> THEN <<>>
    ELSE IF Head(o) \notin done THEN <<Head(o)>> \o Unprocessed(Tail(o), done)
    ELSE Unprocessed(Tail(o), done)

\* the sweep appending every id of order, processed or not
Sweep_ignoreProcessed(o, done, early) == IF early THEN o ELSE <<>>

\* the sweep walking order from its end
Sweep_reversed(o, done, early) ==
    IF early
    THEN LET u == Unprocessed(o, done)
         IN  [i \in 1..Len(u) |-> u[Len(u) + 1 - i]]
    ELSE <<>>

Sweep(o, done, early) == IF early THEN Unprocessed(o, done) ELSE <<>>

\* after the loop: the sweep of a stopped run, and the return of the RunResult
Return ==
    /\ \/ pc = "loop" /\ idx > Len(order)
       \/ pc = "break"
    /\ LET swept == Sweep(order, processed, stopped_early)
       IN  /\ skipped_list' = skipped_list \o swept
           /\ skipped_set' = skipped_set \cup Range(swept)
           /\ ret' = RunResult(order, results, failed_list, skipped_list \o swept)
    /\ pc' = "returned"
    /\ UNCHANGED <<project, graph, call, order, idx, results, failed_list,
                   failed_set, succeeded_set, processed, stopped_early, spawned, exc,
                   environ, spawn_envs, cli, calls>>

Next ==
    \/ \E ff \in BOOLEAN : run_all(ff) /\ UNCHANGED args
    \/ \E target \in Ids, ff \in BOOLEAN : run_target(target, ff) /\ UNCHANGED args
    \/ SkipTask
    \/ SpawnTask
    \/ SpawnFails
    \/ \E rc \in ExitCodes : ChildExit(rc)
    \/ Return

Spec == Init /\ [][Next]_vars

\* The interpreter keeps running _run: a loop iteration that can be taken is
\* taken, and the return after the loop is reached.  A child that was
\* started exits: subprocess.run returns.
Fairness ==
    /\ WF_vars(SkipTask \/ SpawnTask \/ SpawnFails)
    /\ WF_vars(\E rc \in ExitCodes : ChildExit(rc))
    /\ WF_vars(Return)

SpecFair == Init /\ [][Next]_vars /\ Fairness

(***************************************************************************)
(* The command line (cli/commands.py): run_cli with the run command, from  *)
(* the config file to the exit status.                                     *)
(***************************************************************************)
MaxCliTasks == 3

MaxEnvKeys == 1

CliIds == 1..MaxCliTasks

\* the ids a command line can name: those of the file and one of no file
CliTargets == 1..(MaxCliTasks + 1)

EnvKeys == 1..MaxEnvKeys

\* os.environ at start: some of the keys set, each to the value 0
AmbientEnvs == {[k \in S |-> 0] : S \in SUBSET EnvKeys}

\* a config file without whitespace or repeats: the tasks K in ascending
\* order, task t depending on rel[t] (any ids, t itself and ids of no task
\* included) and overriding the environment keys dom[t] with the value t
CliConfig(K, rel, dom) ==
    LET ks == sortedSet(K)
    IN  [tasks |-> [i \in 1..Len(ks) |->
            RawTask(RawStr(ks[i], FALSE),
                    [j \in 1..Cardinality(rel[ks[i]]) |->
                        RawStr(sortedSet(rel[ks[i]])[j], FALSE)],
                    [j \in 1..Cardinality(dom[ks[i]]) |->
                        EnvItem(RawStr(sortedSet(dom[ks[i]])[j], FALSE), ks[i])])]]

CliConfigs ==
    UNION {{CliConfig(K, rel, dom) : rel \in [K -> SUBSET CliIds],
                                     dom \in [K -> SUBSET EnvKeys]} :
           K \in (SUBSET CliIds) \ {{}}}

\* the state run_cli starts in
BeforeLoad ==
    /\ project = NoProject
    /\ graph = <<>>
    /\ pc = "cli"
    /\ Fresh

RunArgs(targets, nff) ==
    [command |-> "run", targets |-> targets, no_fail_fast |-> nff]

\* the command lines "run [--no-fail-fast] [target ...]" with up to two targets
CliArgs ==
    {RunArgs(targets, nff) :
        targets \in {<<>>} \cup {<<a>> : a \in CliTargets}
                          \cup {<<a, b>> : a \in CliIds, b \in CliIds},
        nff \in BOOLEAN}

InitCli ==
    /\ raw \in CliConfigs
    /\ args \in CliArgs
    /\ environ \in AmbientEnvs
    /\ BeforeLoad

\* _run_with up to the Executor: load_project, TaskGraph.from_project
CliLoad ==
    /\ pc = "cli"
    /\ LET got == load_project(raw)
       IN  IF got.exc.type # "none"
           THEN /\ exc' = got.exc
                /\ pc' = "raised"
                /\ UNCHANGED <<project, graph>>
           ELSE /\ project' = got.project
                /\ graph' = from_project(got.project)
                /\ pc' = "idle"
                /\ UNCHANGED exc
    /\ UNCHANGED <<call, locals, spawned, ret, environ, spawn_envs, cli, calls>>

\* _run_with, len(targets) == 0
CliRunAll ==
    /\ Len(args.targets) = 0
    /\ run_all(~args.no_fail_fast)
    /\ UNCHANGED args

\* _run_with, len(targets) == 1
CliRunTarget ==
    /\ Len(args.targets) = 1
    /\ run_target(args.targets[1], ~args.no_fail_fast)
    /\ UNCHANGED args

\* _run_with calling run_target with the first of several targets
CliRejectTargets_runFirst ==
    /\ Len(args.targets) >= 2
    /\ run_target(args.targets[1], ~args.no_fail_fast)
    /\ UNCHANGED args

\* _run_with, two or more targets: ConfigError
CliRejectTargets ==
    /\ pc = "idle"
    /\ Len(args.targets) >= 2
    /\ exc' = ConfigError
    /\ pc' = "raised"
    /\ UNCHANGED <<project, graph, call, locals, spawned, ret, environ,
                   spawn_envs, cli, calls>>

\* the line _print_result prints for tid
StatusLine(rr, tid) ==
    IF \E i \in 1..Len(rr.results) : rr.results[i].task_id = tid
    THEN IF \E i \in 1..Len(rr.results) : rr.results[i] = [task_id |-> tid, returncode |-> 0]
         THEN [status |-> "OK", tid |-> tid]
         ELSE [status |-> "FAIL", tid |-> tid]
    ELSE [status |-> "SKIP", tid |-> tid]

_print_result(rr) == [i \in 1..Len(rr.order) |-> StatusLine(rr, rr.order[i])]

\* the exit status of cmd_run reversed: 0 when failed is non-empty
ExitStatus_reversed(rr) == IF rr.failed # <<>> THEN 0 ELSE 1

\* cmd_run: return 1 if rr.failed else 0
ExitStatus(rr) == IF rr.failed # <<>> THEN 1 ELSE 0

\* cmd_run after _run_with returned
CliPrintAndExit ==
    /\ pc = "returned"
    /\ stdout' = stdout \o _print_result(ret)
    /\ exit_status' = ExitStatus(ret)
    /\ pc' = "exited"
    /\ UNCHANGED <<project, graph, call, locals, spawned, exc, ret, environ,
                   spawn_envs, raw, args, calls>>

\* run_cli: except (ConfigError, GraphError, KeyError); any other exception
\* leaves run_cli uncaught
CliCatch ==
    /\ pc = "raised"
    /\ exc.type \in {"ConfigError", "CycleError", "KeyError"}
    /\ exit_status' = 2
    /\ pc' = "exited"
    /\ UNCHANGED <<project, graph, call, locals, spawned, exc, ret, environ,
                   spawn_envs, raw, args, stdout, calls>>

NextCli ==
    \/ CliLoad
    \/ CliRunAll
    \/ CliRunTarget
    \/ CliRejectTargets
    \/ SkipTask
    \/ SpawnTask
    \/ SpawnFails
    \/ \E rc \in ExitCodes : ChildExit(rc)
    \/ Return
    \/ CliPrintAndExit
    \/ CliCatch

SpecCli == InitCli /\ [][NextCli]_vars

(***************************************************************************)
(* load_project on its own, over config files with whitespace around ids,  *)
(* empty ids, repeated, unknown and self dependencies, in any declaration  *)
(* order.                                                                  *)
(***************************************************************************)
\* the strings of a config file: the names 1..MaxRawTasks+1 bare or padded
\* with whitespace, and the empty string
RawStrs ==
    {RawStr(n, p) : n \in 1..(MaxRawTasks + 1), p \in BOOLEAN} \cup {RawStr(0, FALSE)}

\* the keys of raw["tasks"] in file order: distinct strings
KeySeqs ==
    {ks \in UNION {[1..n -> RawStrs] : n \in 1..MaxRawTasks} : NoDup(ks)}

\* a "deps" list
DepSeqs == UNION {[1..n -> RawStrs] : n \in 0..MaxRawDeps}

LoadConfigs ==
    {[tasks |-> [i \in 1..Len(ks) |-> RawTask(ks[i], ds[i], <<>>)]] :
        ks \in KeySeqs, ds \in [1..MaxRawTasks -> DepSeqs]}

MaxListLen == 3

\* config files of MaxRawTasks+1 tasks with bare ids in ascending order, one
\* of them with a "deps" list of up to MaxListLen strings, the others without
LongListConfigs ==
    {[tasks |-> [i \in 1..(MaxRawTasks + 1) |->
                    RawTask(RawStr(i, FALSE), IF i = owner THEN ds ELSE <<>>, <<>>)]] :
        owner \in 1..(MaxRawTasks + 1),
        ds \in UNION {[1..n -> RawStrs] : n \in 0..MaxListLen}}

InitLoad ==
    /\ raw \in LoadConfigs \cup LongListConfigs
    /\ args = NoArgs
    /\ environ = <<>>
    /\ BeforeLoad

NextLoad == CliLoad

SpecLoad == InitLoad /\ [][NextLoad]_vars

(***************************************************************************)
(* The order operations called directly on one TaskGraph, several times    *)
(* and in any sequence (graph/dag.py).                                     *)
(***************************************************************************)
MaxCalls == 3

OrderCall(name, target, got) == [name |-> name, target |-> target, got |-> got]

\* the task sets of Projects, each declared in ascending order
SortedProjects ==
    {Declare(rel, [i \in Ids |-> i], [i \in Ids |-> i]) :
        rel \in {r \in Relations : LoaderValid(r)}}

InitOrder ==
    /\ project \in SortedProjects
    /\ graph = from_project(project)
    /\ pc = "idle"
    /\ environ = <<>>
    /\ raw = NoRaw
    /\ args = NoArgs
    /\ Fresh

\* graph.topo_order()
CallTopoOrder ==
    /\ pc = "idle"
    /\ Len(calls) < MaxCalls
    /\ calls' = Append(calls, OrderCall("topo_order", 0, topo_order(graph)))
    /\ UNCHANGED <<project, graph, pc, call, locals, spawned, exc, ret, environ,
                   spawn_envs, cli>>

\* subgraph_order keeping sub_deps as the graph's dependency table
CallSubgraphOrder_keepsSubDeps(target) ==
    /\ pc = "idle"
    /\ Len(calls) < MaxCalls
    /\ calls' = Append(calls, OrderCall("subgraph_order", target,
                                        subgraph_order(graph, target)))
    /\ graph' = IF target \in DOMAIN graph
                THEN [t \in needed_closure(graph, {}, <<target>>) |-> graph[t]]
                ELSE graph
    /\ UNCHANGED <<project, pc, call, locals, spawned, exc, ret, environ,
                   spawn_envs, cli>>

\* graph.subgraph_order(target): needed, worklist and sub_deps are locals
CallSubgraphOrder(target) ==
    /\ pc = "idle"
    /\ Len(calls) < MaxCalls
    /\ calls' = Append(calls, OrderCall("subgraph_order", target,
                                        subgraph_order(graph, target)))
    /\ UNCHANGED <<project, graph, pc, call, locals, spawned, exc, ret, environ,
                   spawn_envs, cli>>

NextOrder ==
    \/ CallTopoOrder
    \/ \E target \in Ids : CallSubgraphOrder(target)

SpecOrder == InitOrder /\ [][NextOrder]_vars

(***************************************************************************)
(* The dependency relation, read off the project independently of the      *)
(* graph code.                                                             *)
(***************************************************************************)
Rel == RelationOf(project)

Keys == DOMAIN Rel

RECURSIVE ReachFrom(_, _)
\* the ids reachable from S by zero or more dependency edges
ReachFrom(rel, S) ==
    LET step == S \cup UNION {rel[x] : x \in S}
    IN  IF step = S THEN S ELSE ReachFrom(rel, step)

\* the direct and transitive dependencies of t
TransDeps(rel, t) == ReachFrom(rel, rel[t])

ClosureOf(rel, t) == {t} \cup TransDeps(rel, t)

HasCycleIn(rel, U) == \E t \in U : t \in TransDeps(rel, t)

Acyclic(rel) == ~HasCycleIn(rel, DOMAIN rel)

Called == call.name # "none"

\* the order operation of the call raised (CycleError or KeyError)
OrderRaised == exc.type \in {"CycleError", "KeyError"}

CalledAll == call.name = "run_all"

CalledTarget == call.name = "run_target"

Before(seq, a, b) ==
    \E i, j \in 1..Len(seq) : i < j /\ seq[i] = a /\ seq[j] = b

\* seq lists every id of U once, each after all of its dependencies
TopoSorted(seq, U) ==
    /\ Range(seq) = U
    /\ NoDup(seq)
    /\ \A t \in U : \A d \in Rel[t] : Before(seq, d, t)

ResultKeys(r) == [i \in 1..Len(r) |-> r[i].task_id]

ExitedWith(r, t, rc) == \E i \in 1..Len(r) : r[i] = TaskResult(t, rc)

ExitedNonZero(r, t) ==
    \E i \in 1..Len(r) : r[i].task_id = t /\ r[i].returncode # 0

(***************************************************************************)
(* C1: on an acyclic task set topo_order() returns a sequence holding      *)
(* every task id exactly once, each dependency before its dependent.       *)
(***************************************************************************)
C1_TopoOrderSorted ==
    (CalledAll /\ Acyclic(Rel)) =>
        /\ ~OrderRaised
        /\ TopoSorted(order, Keys)

C1_Witness ==
    /\ CalledAll /\ Acyclic(Rel)
    /\ Len(order) = 4
    /\ \E t \in Keys : Cardinality(Rel[t]) = 2
    /\ \E t \in Keys : \E d \in Rel[t] : Rel[d] # {} /\ d > t

(***************************************************************************)
(* C2: a task is spawned only when each of its dependencies was spawned    *)
(* earlier in the run and has exited with code 0.                          *)
(***************************************************************************)
C2_SpawnOnlyAfterDepsSucceeded ==
    \A i \in 1..Len(spawned) :
        \A d \in Rel[spawned[i]] :
            /\ \E j \in 1..(i - 1) : spawned[j] = d
            /\ ExitedWith(results, d, 0)
            /\ d \notin failed_set /\ d \notin skipped_set

C2_Witness ==
    /\ pc = "child"
    /\ Rel[order[idx]] # {}
    /\ skipped_list # <<>>
    /\ failed_list # <<>>

(***************************************************************************)
(* C3: with fail_fast=false a task ends in skipped exactly when one of its *)
(* direct or transitive dependencies exited non-zero; every other task of  *)
(* the order was executed and has a results entry.                         *)
(***************************************************************************)
C3_SkipIffDependsOnFailure ==
    (pc = "returned" /\ ~call.fail_fast /\ Acyclic(Rel)) =>
        \A t \in Range(ret.order) :
            LET hit == \E d \in TransDeps(Rel, t) : ExitedNonZero(ret.results, d)
            IN  /\ Contains(ret.skipped, t) <=> hit
                /\ Contains(ResultKeys(ret.results), t) <=> ~hit
                /\ Contains(spawned, t) <=> ~hit

C3_Witness ==
    /\ pc = "returned" /\ ~call.fail_fast /\ Acyclic(Rel)
    /\ \E t \in Range(ret.skipped) :
          \A d \in Rel[t] : ~ExitedNonZero(ret.results, d)
    /\ \E i, j \in 1..Len(ret.results) :
          i < j /\ ret.results[i].returncode # 0 /\ ret.results[j].returncode = 0

(***************************************************************************)
(* C4: with fail_fast=true the first non-zero exit stops the walk: nothing *)
(* later in the order is spawned, every later task is in skipped, and      *)
(* results holds exactly the order up to and including the failed task.    *)
(***************************************************************************)
C4_FailFastStopsWalk ==
    (call.fail_fast /\ failed_list # <<>>) =>
        LET p == IndexOf(order, failed_list[1])
        IN  /\ pc \in {"break", "returned"}
            /\ spawned = SubSeq(order, 1, p)
            /\ ResultKeys(results) = SubSeq(order, 1, p)
            /\ pc = "returned" =>
                  /\ ResultKeys(ret.results) = SubSeq(order, 1, p)
                  /\ \A i \in (p + 1)..Len(order) : Contains(ret.skipped, order[i])

C4_Witness ==
    /\ pc = "returned" /\ call.fail_fast /\ failed_list # <<>>
    /\ Len(ret.results) = 2
    /\ \E t \in Range(ret.skipped) : failed_list[1] \notin TransDeps(Rel, t)
    /\ \E t \in Range(ret.skipped) : failed_list[1] \in TransDeps(Rel, t)

(***************************************************************************)
(* C5: topo_order() raises CycleError exactly when the dependency relation *)
(* has a cycle, and then hands the caller no order at all.                 *)
(***************************************************************************)
C5_CycleErrorIffCycle ==
    CalledAll =>
        /\ exc.type = "CycleError" <=> ~Acyclic(Rel)
        /\ exc.type = "CycleError" => order = <<>> /\ pc = "raised"
        /\ Acyclic(Rel) => ~OrderRaised

C5_Witness ==
    /\ CalledAll /\ exc.type = "CycleError"
    /\ \E t \in Keys : t \notin TransDeps(Rel, t)
    /\ 1 \notin Range(exc.cycle)

(***************************************************************************)
(* C6: a reported cycle is a closed loop: its first element equals its     *)
(* last and it has at least 3 elements, the repeat included.               *)
(***************************************************************************)
C6_CyclePathClosed ==
    exc.type = "CycleError" =>
        /\ Len(exc.cycle) >= 3
        /\ exc.cycle[1] = exc.cycle[Len(exc.cycle)]

C6_Witness ==
    /\ exc.type = "CycleError"
    /\ Len(exc.cycle) = 4
    /\ CalledTarget /\ call.target \notin Range(exc.cycle)

(***************************************************************************)
(* C7: the outcome of topo_order() and of subgraph_order(T) depends on the *)
(* id -> dependency-set relation only: every declaration order of the same *)
(* relation gives the identical sequence.  (order and exc are set by the   *)
(* call and not changed afterwards, so the states right after the call     *)
(* decide it.)                                                             *)
(***************************************************************************)
C7_OrderIndependentOfDeclaration ==
    ((pc = "loop" /\ idx = 1) \/ (pc = "raised" /\ OrderRaised)) =>
        \A pk \in DeclOrders, pd \in DeclOrders :
            LET other == from_project(Declare(Rel, pk, pd))
            IN  [exc |-> exc, order |-> order] =
                    IF CalledAll THEN topo_order(other)
                    ELSE subgraph_order(other, call.target)

C7_Witness ==
    /\ pc = "loop" /\ idx = 1
    /\ Len(order) >= 3
    /\ \E t \in Keys : Len(project.deps[t]) >= 2 /\ project.deps[t] # graph[t]
    /\ project.keys # tasks_ids(project)

(***************************************************************************)
(* C8: on an acyclic task set subgraph_order(T), T present, holds exactly  *)
(* T and the tasks reachable from T by dependency edges, each once and     *)
(* after its dependencies; for a T without dependencies it is <<T>>.       *)
(***************************************************************************)
C8_SubgraphIsClosure ==
    (CalledTarget /\ call.target \in Keys /\ Acyclic(Rel)) =>
        /\ ~OrderRaised
        /\ TopoSorted(order, ClosureOf(Rel, call.target))
        /\ Rel[call.target] = {} => order = <<call.target>>

C8_Witness ==
    /\ CalledTarget /\ call.target \in Keys /\ Acyclic(Rel)
    /\ Len(order) = 3
    /\ Cardinality(Keys) = 4
    /\ Cardinality(Rel[call.target]) = 1

C8_WitnessLeaf ==
    /\ CalledTarget /\ call.target \in Keys /\ Acyclic(Rel)
    /\ Rel[call.target] = {}
    /\ Cardinality(Keys) > 1

(***************************************************************************)
(* C9: run_target(T) for a T absent from the task set fails with the       *)
(* unknown-target error: no order, no spawn, no RunResult.                 *)
(***************************************************************************)
C9_UnknownTargetFails ==
    (CalledTarget /\ call.target \notin Keys) =>
        /\ pc = "raised"
        /\ exc = KeyError(call.target)
        /\ order = <<>>
        /\ spawned = <<>>
        /\ results = <<>>
        /\ ret = NoResult

C9_Witness ==
    /\ CalledTarget /\ call.target \notin Keys
    /\ pc = "raised"
    /\ Cardinality(Keys) >= 2

(***************************************************************************)
(* C10: when the order operation behind run_all or run_target meets a      *)
(* cycle, the CycleError reaches the caller and nothing is spawned, tasks  *)
(* outside the cycle included.                                             *)
(***************************************************************************)
CallUniverse ==
    IF CalledAll THEN Keys
    ELSE IF call.target \in Keys THEN ClosureOf(Rel, call.target)
    ELSE {}

C10_CycleStopsRun ==
    (Called /\ HasCycleIn(Rel, CallUniverse)) =>
        /\ pc = "raised"
        /\ exc.type = "CycleError"
        /\ spawned = <<>>
        /\ results = <<>>
        /\ ret = NoResult

C10_Witness ==
    /\ Called /\ exc.type = "CycleError"
    /\ spawned = <<>>
    /\ \E t \in CallUniverse : Rel[t] = {}
    /\ Min(CallUniverse) \notin Range(exc.cycle)

(***************************************************************************)
(* C11: the engine never fails because of a child: a child that exits      *)
(* non-zero and a child that cannot be started are both recorded as a      *)
(* failing TaskResult, and _run still returns a RunResult.  Stated: no      *)
(* exception other than the order operation's reaches the caller.          *)
(***************************************************************************)
C11_EngineNeverFailsOnChild ==
    pc = "raised" => OrderRaised

(***************************************************************************)
(* C12: in a returned RunResult every id of order is in exactly one class: *)
(* results entry with code 0; results entry with non-zero code and in      *)
(* failed; no results entry and in skipped.  failed and skipped have no    *)
(* duplicates, are disjoint and hold ids of order only; an executed task   *)
(* has exactly one TaskResult.                                             *)
(***************************************************************************)
C12_ResultPartition ==
    pc = "returned" =>
        LET keys == ResultKeys(ret.results)
            Succeeded(t) == ExitedWith(ret.results, t, 0)
            Failed(t) == ExitedNonZero(ret.results, t) /\ Contains(ret.failed, t)
            Skipped(t) == ~Contains(keys, t) /\ Contains(ret.skipped, t)
        IN  /\ NoDup(keys) /\ NoDup(ret.failed) /\ NoDup(ret.skipped)
            /\ Range(ret.failed) \cap Range(ret.skipped) = {}
            /\ Range(ret.failed) \subseteq Range(ret.order)
            /\ Range(ret.skipped) \subseteq Range(ret.order)
            /\ Range(keys) \subseteq Range(ret.order)
            /\ \A t \in Range(ret.order) :
                  /\ Succeeded(t) \/ Failed(t) \/ Skipped(t)
                  /\ ~(Succeeded(t) /\ Failed(t))
                  /\ ~(Succeeded(t) /\ Skipped(t))
                  /\ ~(Failed(t) /\ Skipped(t))
                  /\ Succeeded(t) => ~Contains(ret.failed, t) /\ ~Contains(ret.skipped, t)
                  /\ Failed(t) => ~Contains(ret.skipped, t)
                  /\ Skipped(t) => ~Contains(ret.failed, t)

C12_Witness ==
    /\ pc = "returned" /\ call.fail_fast
    /\ ret.failed # <<>>
    /\ Len(ret.skipped) >= 2
    /\ \E i \in 1..Len(ret.results) : ret.results[i].returncode = 0

(***************************************************************************)
(* C13: when every child exits with code 0, run_all spawns every task of   *)
(* the set exactly once, in the sequence topo_order() gives, and returns a *)
(* RunResult whose results keys are in that sequence and whose failed and  *)
(* skipped lists are empty.                                                *)
(***************************************************************************)
AllExitedZero(r) == \A i \in 1..Len(r) : r[i].returncode = 0

C13_AllSucceedRunsTopoOrder ==
    (CalledAll /\ pc = "returned" /\ AllExitedZero(ret.results)) =>
        /\ ret.order = topo_order(graph).order
        /\ spawned = ret.order
        /\ ResultKeys(ret.results) = ret.order
        /\ Range(spawned) = Keys /\ NoDup(spawned)
        /\ ret.failed = <<>>
        /\ ret.skipped = <<>>

C13_Witness ==
    /\ CalledAll /\ pc = "returned" /\ AllExitedZero(ret.results)
    /\ Len(spawned) = 4
    /\ spawned # tasks_ids(project)

(***************************************************************************)
(* C14: run_target(T) never spawns a task outside the transitive           *)
(* dependency closure of T, and no such task is in order, results, failed  *)
(* or skipped of the returned RunResult.                                   *)
(***************************************************************************)
C14_TargetRunStaysInClosure ==
    (CalledTarget /\ call.target \in Keys) =>
        LET closure == ClosureOf(Rel, call.target)
        IN  /\ Range(spawned) \subseteq closure
            /\ Range(order) \subseteq closure
            /\ Range(ResultKeys(results)) \subseteq closure
            /\ Range(failed_list) \subseteq closure
            /\ Range(skipped_list) \subseteq closure
            /\ Range(ret.order) \subseteq closure
            /\ Range(ResultKeys(ret.results)) \subseteq closure
            /\ Range(ret.failed) \subseteq closure
            /\ Range(ret.skipped) \subseteq closure

C14_Witness ==
    /\ CalledTarget /\ call.target \in Keys /\ pc = "returned"
    /\ Cardinality(Keys \ ClosureOf(Rel, call.target)) = 2
    /\ ret.failed # <<>> /\ ret.skipped # <<>>
    /\ \E t \in Keys \ ClosureOf(Rel, call.target) : call.target \in Rel[t]

(***************************************************************************)
(* C15: at most one child process is active at a time: the engine neither  *)
(* evaluates nor spawns the next task of the order until the child of the  *)
(* current one has exited, and a fail-fast stop finds no child running.    *)
(***************************************************************************)
\* the children started and not yet exited
ActiveChildren == Len(spawned) - Len(results)

C15_OneChildAtATime ==
    /\ ActiveChildren \in {0, 1}
    /\ ActiveChildren = 1 <=> pc = "child"
    /\ ResultKeys(results) = SubSeq(spawned, 1, Len(results))
    /\ pc = "child" =>
          /\ spawned[Len(spawned)] = order[idx]
          /\ processed = Range(SubSeq(order, 1, idx - 1))
    /\ pc \in {"break", "returned", "raised"} => ActiveChildren = 0

C15_Witness ==
    /\ pc = "child"
    /\ Len(spawned) = 3
    /\ Len(results) = 2
    /\ idx < Len(order)

C17_SpawnEnvIsAmbientPlusOwn ==
    /\ Len(spawn_envs) = Len(spawned)
    /\ \A i \in 1..Len(spawn_envs) :
          LET own == project.env[spawned[i]]
              e == spawn_envs[i]
          IN  /\ DOMAIN e = DOMAIN environ \cup DOMAIN own
              /\ \A k \in DOMAIN own : e[k] = own[k] /\ own[k] = spawned[i]
              /\ \A k \in DOMAIN e \ DOMAIN own : e[k] = environ[k] /\ e[k] = 0

\* a task overriding an ambient key was spawned, and after it a task that
\* does not set the key
C17_Witness ==
    \E i \in 1..Len(spawn_envs), j \in 1..Len(spawn_envs), k \in EnvKeys :
        /\ i < j
        /\ Len(spawn_envs) = Len(spawned)
        /\ k \in DOMAIN environ
        /\ k \in DOMAIN project.env[spawned[i]]
        /\ k \notin DOMAIN project.env[spawned[j]]
        /\ spawn_envs[i][k] = spawned[i]
        /\ spawn_envs[j][k] = 0

(***************************************************************************)
(* C18: when the run command has returned, its exit status is 0 exactly    *)
(* when the failed list of the RunResult is empty and 1 when it is not,    *)
(* and the status lines of the RunResult were printed; when load_project,  *)
(* the graph or the target lookup raised (ConfigError, CycleError,         *)
(* KeyError) the exit status is 2 and nothing was printed.                 *)
(***************************************************************************)
C18_ExitStatus ==
    pc = "exited" =>
        /\ exc.type = "none" =>
              /\ exit_status \in {0, 1}
              /\ exit_status = 0 <=> ret.failed = <<>>
              /\ exit_status = 1 <=> ret.failed # <<>>
              /\ ret.order = order
              /\ Len(stdout) = Len(ret.order)
        /\ exc.type # "none" =>
              /\ exc.type \in {"ConfigError", "CycleError", "KeyError"}
              /\ exit_status = 2
              /\ stdout = <<>>
              /\ ret = NoResult

\* each exit status was returned: 0, 1, and 2 for each of the three errors
C18_Witness ==
    /\ pc = "exited"
    /\ exit_status = 1
    /\ Len(ret.failed) = 1
    /\ ret.skipped # <<>>

C18_WitnessZero ==
    /\ pc = "exited"
    /\ exit_status = 0
    /\ Len(ret.results) >= 2

C18_WitnessConfigError == pc = "exited" /\ exit_status = 2 /\ exc.type = "ConfigError"

C18_WitnessCycleError == pc = "exited" /\ exit_status = 2 /\ exc.type = "CycleError"

C18_WitnessKeyError == pc = "exited" /\ exit_status = 2 /\ exc.type = "KeyError"

(***************************************************************************)
(* C19: a run command line naming two or more targets never reaches        *)
(* run_all or run_target and spawns no task command, and once run_cli has  *)
(* returned its exit status is 2; with a loadable config the error is the  *)
(* ConfigError of _run_with.                                               *)
(***************************************************************************)
C19_MultipleTargetsRejected ==
    Len(args.targets) >= 2 =>
        /\ call = NoCall
        /\ spawned = <<>>
        /\ pc \in {"cli", "idle", "raised", "exited"}
        /\ pc = "raised" => exc = ConfigError
        /\ pc = "exited" => exit_status = 2 /\ exc = ConfigError /\ stdout = <<>>
        /\ ret = NoResult

\* two targets, both tasks of a loaded acyclic config, were rejected with 2
C19_Witness ==
    /\ Len(args.targets) = 2
    /\ pc = "exited"
    /\ exit_status = 2
    /\ project # NoProject
    /\ args.targets[1] \in DOMAIN graph
    /\ args.targets[2] \in DOMAIN graph
    /\ args.targets[1] # args.targets[2]
    /\ topo_order(graph).exc.type = "none"

\* the ids of the tasks of the config file, and its (task id, dependency id)
\* pairs, read off the file
RawIds == {strip(raw.tasks[i].id) : i \in 1..Len(raw.tasks)}

RawEdges ==
    UNION {{<<strip(raw.tasks[i].id), strip(raw.tasks[i].deps[j])>> :
               j \in 1..Len(raw.tasks[i].deps)} : i \in 1..Len(raw.tasks)}

RawSelfDependency == \E e \in RawEdges : e[1] = e[2]

RawUnknownDependency == \E e \in RawEdges : e[2] \notin RawIds

(***************************************************************************)
(* C20: a ProjectConfig returned by load_project is referentially closed   *)
(* and has no self-dependency: every dependency id of every task is a key  *)
(* of the task map and is not the task's own id.  A config file in which   *)
(* some task names itself or an id of no task as a dependency gives        *)
(* ConfigError and no ProjectConfig; a dependency on a task declared later *)
(* in the file is a key of the map like any other.                         *)
(***************************************************************************)
C20_LoadedProjectClosed ==
    /\ pc = "idle" =>
          /\ Range(project.keys) = RawIds
          /\ DOMAIN project.deps = RawIds
          /\ \A t \in RawIds : \A i \in 1..Len(project.deps[t]) :
                /\ project.deps[t][i] \in RawIds
                /\ project.deps[t][i] # t
                /\ <<t, project.deps[t][i]>> \in RawEdges
    /\ (pc # "cli" /\ (RawSelfDependency \/ RawUnknownDependency)) =>
          /\ pc = "raised"
          /\ exc = ConfigError
          /\ project = NoProject

\* a file whose first task depends on its second was loaded
C20_Witness ==
    /\ pc = "idle"
    /\ Len(raw.tasks) = 2
    /\ project.deps[project.keys[1]] = <<project.keys[2]>>
    /\ raw.tasks[1].deps[1].pad

\* a file whose only flaw is a self-dependency written with whitespace, and
\* one whose only flaw is an unknown dependency of its first task
C20_WitnessSelf ==
    /\ pc = "raised"
    /\ Len(raw.tasks) = 2
    /\ RawSelfDependency
    /\ ~RawUnknownDependency
    /\ 0 \notin RawIds
    /\ Cardinality(RawIds) = 2
    /\ \E j \in 1..Len(raw.tasks[2].deps) :
          raw.tasks[2].deps[j].pad /\ strip(raw.tasks[2].deps[j]) = strip(raw.tasks[2].id)

C20_WitnessUnknown ==
    /\ pc = "raised"
    /\ Len(raw.tasks) = 2
    /\ ~RawSelfDependency
    /\ RawUnknownDependency
    /\ 0 \notin RawIds
    /\ Cardinality(RawIds) = 2
    /\ \A e \in RawEdges : e[2] # 0
    /\ raw.tasks[2].deps = <<>>

\* the "deps" list of the i-th task of the config file, every string stripped
StrippedDeps(i) == [j \in 1..Len(raw.tasks[i].deps) |-> strip(raw.tasks[i].deps[j])]

\* the position of the first occurrence of x in s
FirstAt(s, x) == Min({j \in 1..Len(s) : s[j] = x})

(***************************************************************************)
(* C21: for every task of a loaded project the stored deps list holds the  *)
(* stripped dependency ids of the input, each exactly once, in the order   *)
(* of their first occurrences in the input.                                *)
(***************************************************************************)
C21_DepsDedupFirstSeen ==
    pc = "idle" =>
        \A i \in 1..Len(raw.tasks) :
            LET s == StrippedDeps(i)
                d == project.deps[strip(raw.tasks[i].id)]
            IN  /\ NoDup(d)
                /\ Range(d) = Range(s)
                /\ \A a, b \in 1..Len(d) :
                      a < b => FirstAt(s, d[a]) < FirstAt(s, d[b])

\* a loaded list x, y, x with the repeat written with other whitespace
C21_Witness ==
    /\ pc = "idle"
    /\ \E i \in 1..Len(raw.tasks) :
          LET s == StrippedDeps(i)
          IN  /\ Len(s) = 3
              /\ s[1] = s[3]
              /\ s[1] # s[2]
              /\ s[1] > s[2]
              /\ raw.tasks[i].deps[1] # raw.tasks[i].deps[3]
              /\ project.deps[strip(raw.tasks[i].id)] = <<s[1], s[2]>>

\* s holds ids of o, none twice, in the relative order they have in o
IsSubsequence(s, o) ==
    /\ NoDup(s)
    /\ Range(s) \subseteq Range(o)
    /\ \A a, b \in 1..Len(s) : a < b => Before(o, s[a], s[b])

\* what the graph gives for the request of the call
GraphOrder ==
    IF CalledAll THEN topo_order(graph) ELSE subgraph_order(graph, call.target)

(***************************************************************************)
(* C22: in every RunResult, order is the sequence the graph produced for   *)
(* the request, and failed, skipped and the keys of results in insertion   *)
(* order each keep the relative order their ids have in order, with        *)
(* fail_fast true or false.                                                *)
(***************************************************************************)
C22_ListsFollowOrder ==
    pc = "returned" =>
        /\ GraphOrder.exc.type = "none"
        /\ ret.order = GraphOrder.order
        /\ NoDup(ret.order)
        /\ IsSubsequence(ret.failed, ret.order)
        /\ IsSubsequence(ret.skipped, ret.order)
        /\ IsSubsequence(ResultKeys(ret.results), ret.order)

\* a fail-fast run whose sweep added two or more ids
C22_Witness ==
    /\ pc = "returned"
    /\ call.fail_fast
    /\ Len(ret.failed) = 1
    /\ Len(ret.skipped) >= 2
    /\ Len(ret.results) >= 2

\* a run without fail-fast with two failures and two skips
C22_WitnessNoFailFast ==
    /\ pc = "returned"
    /\ ~call.fail_fast
    /\ Len(ret.failed) >= 2
    /\ Len(ret.skipped) >= 2

RECURSIVE DfsPostOrder(_, _, _)
\* the post-order of the depth-first traversals from the ids of todo, taken
\* in sequence, over the dependency sets in ascending order; out holds the
\* ids already finished.  Defined for acyclic rel.
DfsPostOrder(rel, todo, out) ==
    IF todo = <<>> THEN out
    ELSE IF Contains(out, Head(todo)) THEN DfsPostOrder(rel, Tail(todo), out)
    ELSE DfsPostOrder(rel, Tail(todo),
             Append(DfsPostOrder(rel, sortedSet(rel[Head(todo)]), out), Head(todo)))

\* A = 1, B = 2, C = 3, D = 4: A -> {B, C}, B -> {D}, C -> {D}
Diamond == (1 :> {2, 3}) @@ (2 :> {4}) @@ (3 :> {4}) @@ (4 :> {})

(***************************************************************************)
(* C23: on an acyclic task set topo_order() is the post-order of the       *)
(* depth-first traversal started from the task ids in ascending order and  *)
(* following each task's dependencies in ascending order; the diamond      *)
(* gives D, B, C, A and tasks without dependencies come out ascending.     *)
(***************************************************************************)
C23_TopoOrderIsDfsPostOrder ==
    (CalledAll /\ Acyclic(Rel)) =>
        /\ ~OrderRaised
        /\ order = DfsPostOrder(Rel, sortedSet(Keys), <<>>)
        /\ Rel = Diamond => order = <<4, 2, 3, 1>>
        /\ (\A t \in Keys : Rel[t] = {}) => order = sortedSet(Keys)

\* the diamond, declared in descending order, was ordered
C23_Witness ==
    /\ CalledAll
    /\ Rel = Diamond
    /\ project.keys = <<4, 3, 2, 1>>
    /\ project.deps[1] = <<3, 2>>
    /\ order = <<4, 2, 3, 1>>

\* four tasks without dependencies were ordered
C23_WitnessFlat ==
    /\ CalledAll
    /\ Keys = Ids
    /\ \A t \in Keys : Rel[t] = {}
    /\ order = <<1, 2, 3, 4>>

RECURSIVE RefVisit(_, _, _)
RECURSIVE RefVisitList(_, _, _)
\* a depth-first traversal over the dependency sets kept as the path of ids
\* in progress and the set of finished ids; when it reaches an id that is
\* on the path, cyc becomes the path from that id's first appearance to
\* its end, followed by the id
RefVisit(rel, st, t) ==
    IF st.cyc # <<>> THEN st
    ELSE IF Contains(st.path, t)
    THEN [st EXCEPT !.cyc = SubSeq(st.path, FirstAt(st.path, t), Len(st.path)) \o <<t>>]
    ELSE IF t \in st.done THEN st
    ELSE LET after == RefVisitList(rel, [st EXCEPT !.path = Append(st.path, t)],
                                   sortedSet(rel[t]))
         IN  IF after.cyc # <<>> THEN after
             ELSE [after EXCEPT !.path = st.path, !.done = after.done \cup {t}]

RefVisitList(rel, st, todo) ==
    IF todo = <<>> THEN st
    ELSE RefVisitList(rel, RefVisit(rel, st, Head(todo)), Tail(todo))

RefCycle(rel, U) ==
    RefVisitList(rel, [path |-> <<>>, done |-> {}, cyc |-> <<>>], sortedSet(U)).cyc

\* A = 1, B = 2, C = 3: A -> B, B -> C, C -> B
LeadIn == (1 :> {2}) @@ (2 :> {3}) @@ (3 :> {2})

(***************************************************************************)
(* C24: the cycle carried by a CycleError is the in-progress path of the   *)
(* traversal from the first appearance of the task that was reached again  *)
(* to the end of the path, followed by that task; tasks on the path before *)
(* it are left out, so A -> B, B -> C, C -> B reports B, C, B.             *)
(***************************************************************************)
C24_CycleIsPathSlice ==
    (Called /\ exc.type = "CycleError") =>
        /\ exc.cycle = RefCycle(Rel, CallUniverse)
        /\ (CalledAll /\ Rel = LeadIn) => exc.cycle = <<2, 3, 2>>

\* the run of A -> B, B -> C, C -> B raised with the path B, C, B
C24_Witness ==
    /\ CalledAll
    /\ Rel = LeadIn
    /\ pc = "raised"
    /\ exc = CycleError(<<2, 3, 2>>)

\* a run_target whose path to the cycle has a lead-in of two tasks
C24_WitnessTarget ==
    /\ CalledTarget
    /\ exc.type = "CycleError"
    /\ Len(exc.cycle) = 3
    /\ Cardinality(CallUniverse) = 4
    /\ call.target \notin Range(exc.cycle)
    /\ \E t \in Rel[call.target] : t \notin Range(exc.cycle)

(***************************************************************************)
(* C25: when every started child exits, every call of run_all, and of      *)
(* run_target with a target of the set, on an acyclic task set eventually  *)
(* returns a RunResult.                                                    *)
(***************************************************************************)
C25_EveryRunReturns ==
    (Called /\ Acyclic(Rel) /\ (CalledTarget => call.target \in Keys))
        ~> (pc = "returned")

\* no task is handed to subprocess.run twice in one run
C25_SpawnedAtMostOnce ==
    /\ NoDup(spawned)
    /\ Range(spawned) \subseteq Range(order)

\* the run goes on to its return unless subprocess.run raised
C25_RunReturnsOrSpawnRaised ==
    (Called /\ Acyclic(Rel) /\ (CalledTarget => call.target \in Keys))
        ~> (pc = "returned" \/ (pc = "raised" /\ exc = OSError))

(***************************************************************************)
(* C26: no step of a run of run_all or run_target, from the call to the    *)
(* return or the raise, changes the task set, the dependency table of the  *)
(* graph or os.environ; the config file and the command line stay as they  *)
(* were too.                                                               *)
(***************************************************************************)
C26_RunLeavesInputsUnchanged ==
    [][pc # "cli" =>
          /\ project' = project
          /\ graph' = graph
          /\ environ' = environ
          /\ raw' = raw
          /\ args' = args]_vars

\* a finished run that spawned two tasks, one of them overriding an ambient
\* key, and skipped or failed another; the task set is still the loaded one
C26_Witness ==
    /\ pc = "returned"
    /\ Len(spawned) >= 2
    /\ ret.failed # <<>>
    /\ \E i \in 1..Len(spawned) :
          DOMAIN project.env[spawned[i]] \cap DOMAIN environ # {}
    /\ project = load_project(raw).project
    /\ graph = from_project(project)

(***************************************************************************)
(* C27: subgraph_order(T), T a task of the set, raises CycleError exactly  *)
(* when the transitive dependency closure of T contains a cycle.  A cycle  *)
(* among tasks outside the closure does not stop it from returning the     *)
(* order of the closure, while topo_order() on the same graph raises.      *)
(***************************************************************************)
C27_SubgraphCycleIffInClosure ==
    (CalledTarget /\ call.target \in Keys) =>
        /\ exc.type = "CycleError" <=> HasCycleIn(Rel, ClosureOf(Rel, call.target))
        /\ exc.type = "CycleError" => pc = "raised" /\ order = <<>>
        /\ (HasCycleIn(Rel, Keys) /\ ~HasCycleIn(Rel, ClosureOf(Rel, call.target))) =>
              /\ ~OrderRaised
              /\ TopoSorted(order, ClosureOf(Rel, call.target))
              /\ topo_order(graph).exc.type = "CycleError"

\* a target with a dependency ran to its return beside a cycle of two tasks
C27_Witness ==
    /\ CalledTarget
    /\ call.target \in Keys
    /\ pc = "returned"
    /\ Len(ret.order) = 2
    /\ Len(ret.results) = 2
    /\ HasCycleIn(Rel, Keys \ ClosureOf(Rel, call.target))

\* a target outside the cycle whose closure runs into it
C27_WitnessInClosure ==
    /\ CalledTarget
    /\ pc = "raised"
    /\ exc.type = "CycleError"
    /\ call.target \notin Range(exc.cycle)

\* run_target was called with a task of an acyclic task set
CalledTargetAcyclic == CalledTarget /\ call.target \in Keys /\ Acyclic(Rel)

(***************************************************************************)
(* C28, as stated: on an acyclic task set subgraph_order(T) is a           *)
(* subsequence of topo_order(): any two tasks of the closure of T have the *)
(* same relative order in both sequences.                                  *)
(***************************************************************************)
C28_SubgraphIsSubsequenceOfTopo ==
    CalledTargetAcyclic => IsSubsequence(order, topo_order(graph).order)

(***************************************************************************)
(* C28, amended: on an acyclic task set subgraph_order(T) is the order the *)
(* full-order traversal gives on the closure of T taken as a task set of   *)
(* its own (roots and dependencies ascending, post-order).  It agrees with *)
(* topo_order() on every two tasks of the closure of which one depends,    *)
(* directly or transitively, on the other; two tasks of the closure that   *)
(* do not depend on each other may come in the other order.                *)
(***************************************************************************)
C28_SubgraphIsOrderOfClosure ==
    CalledTargetAcyclic =>
        LET U == ClosureOf(Rel, call.target)
            full == topo_order(graph).order
        IN  /\ ~OrderRaised
            /\ order = DfsPostOrder(Rel, sortedSet(U), <<>>)
            /\ order = topo_order([t \in U |-> graph[t]]).order
            /\ \A a, b \in U :
                  a \in TransDeps(Rel, b) => Before(order, a, b) /\ Before(full, a, b)

\* a run_target that returned after walking two tasks of the closure in the
\* order opposite to the one topo_order() gives them
C28_Witness ==
    /\ CalledTargetAcyclic
    /\ pc = "returned"
    /\ \E a, b \in ClosureOf(Rel, call.target) :
          /\ Before(ret.order, a, b)
          /\ Before(topo_order(graph).order, b, a)
          /\ Before(spawned, a, b)

(***************************************************************************)
(* C29: the path carried by a CycleError is a cycle of the dependency      *)
(* relation: each id of the path is followed by one of its declared        *)
(* dependencies, the path ends on the id it starts with, and no other id   *)
(* occurs twice in it.                                                     *)
(***************************************************************************)
C29_CyclePathIsRealCycle ==
    exc.type = "CycleError" =>
        LET c == exc.cycle
        IN  /\ Len(c) >= 2
            /\ Range(c) \subseteq Keys
            /\ \A i \in 1..(Len(c) - 1) : c[i + 1] \in Rel[c[i]]
            /\ c[1] = c[Len(c)]
            /\ NoDup(SubSeq(c, 1, Len(c) - 1))

\* a cycle of three tasks was reported, in a task set in which the edges of
\* the cycle do not all exist in the other direction
C29_Witness ==
    /\ exc.type = "CycleError"
    /\ Len(exc.cycle) = 4
    /\ exc.cycle[1] \notin Rel[exc.cycle[2]]

(***************************************************************************)
(* C30: with fail_fast true a run never has more than one id in failed and *)
(* skips no task by the dependency rule while it walks the order; at its   *)
(* return skipped is the part of order that follows the failed task, in    *)
(* order sequence, and is empty when no task failed.                       *)
(***************************************************************************)
C30_FailFastSkipsExactlyTheRest ==
    (Called /\ call.fail_fast) =>
        /\ Len(failed_list) <= 1
        /\ pc \in {"loop", "child", "break"} => skipped_list = <<>>
        /\ failed_list = <<>> => skipped_list = <<>>
        /\ pc = "returned" =>
              /\ ret.failed = failed_list
              /\ ret.skipped = skipped_list
              /\ ret.failed # <<>> =>
                    ret.skipped = SubSeq(ret.order, FirstAt(ret.order, ret.failed[1]) + 1,
                                         Len(ret.order))

\* a fail-fast run whose second task failed and whose sweep skipped two
\* tasks, one of them without any dependency on the failed task
C30_Witness ==
    /\ CalledAll
    /\ call.fail_fast
    /\ pc = "returned"
    /\ Len(ret.order) = 4
    /\ ret.failed = <<ret.order[2]>>
    /\ ret.skipped = <<ret.order[3], ret.order[4]>>
    /\ \E t \in Range(ret.skipped) : ret.failed[1] \notin TransDeps(Rel, t)
    /\ \E t \in Range(ret.skipped) : ret.failed[1] \in Rel[t]

\* a fail-fast run in which nothing failed
C30_WitnessNoFailure ==
    /\ Called
    /\ call.fail_fast
    /\ pc = "returned"
    /\ Len(ret.results) >= 3
    /\ ret.failed = <<>>
    /\ ret.skipped = <<>>

====
